---- MODULE Spec2Model ----
(***************************************************************************)
(* Authentication token lifecycle of the email dashboard:                  *)
(*   - the Token Issuer   (backend/src/routes/auth.ts, the authMiddleware  *)
(*     of backend/src/services/tokenStore.ts), and                         *)
(*   - the Refresh Coordinator (the axios client with its request and      *)
(*     response interceptors, frontend api/axios.ts).                      *)
(* Time is in seconds, as in the iat/exp claims of a JWT.                  *)
(***************************************************************************)
EXTENDS Integers, Sequences, FiniteSets, TLC

\* ------------------------------------------------------------------ bounds
MaxCalls == 2       \* calls issued through apiClient by one page
MaxPageLogins == 1  \* logins made from that page
MaxLogins == 2      \* logins served by the Issuer on its own

\* -------------------------------------------------------- program constants
ACCESS_EXPIRY == 900        \* "15m"
REFRESH_EXPIRY == 604800    \* "7d"

\* the instants the clock is looked at, counted from the start: when an
\* access token minted at the start expires, when a refresh token minted at
\* the start expires and, for the Issuer alone, the seconds next to these
Instants == {ACCESS_EXPIRY, REFRESH_EXPIRY}
IssuerInstants == {ACCESS_EXPIRY, REFRESH_EXPIRY - 1, REFRESH_EXPIRY}

Users == {"u1", "u2"}
EmailOf(u) == IF u = "u1" THEN "u1@example.com" ELSE "u2@example.com"

CallIds == 1..MaxCalls

VARIABLES
  \* --- Token Issuer (server)
  now,                \* the server's clock, seconds
  refreshTokenStore,  \* Map<refreshToken, userId>
  gmailTokens,        \* user ids holding a Gmail token (services/tokenStore.ts)
  issued,             \* the AuthResponses handed out by the login paths
  nLogins,            \* logins served so far
  srvResp,            \* response of a request sent to the Issuer directly
  revoked,            \* refresh tokens presented to POST /auth/logout so far
  \* --- Refresh Coordinator (client)
  accessToken,        \* let accessToken: string | null
  localStorage,       \* window.localStorage: key -> value
  isRefreshing,       \* let isRefreshing
  failedQueue,        \* let failedQueue: Array<{resolve, reject}>
  calls,              \* the calls made through apiClient
  refreshNet,         \* the axios.post(/auth/refresh) exchange of each trigger
  redirected,         \* window.location.href = "/login" was assigned
  cycle               \* bookkeeping of the current refresh cycle

srvVars == <<now, refreshTokenStore, gmailTokens, issued, nLogins,
             srvResp, revoked>>
cliVars == <<accessToken, localStorage, isRefreshing, failedQueue,
             calls, refreshNet, redirected, cycle>>
vars == <<now, refreshTokenStore, gmailTokens, issued, nLogins,
          srvResp, revoked,
          accessToken, localStorage, isRefreshing, failedQueue,
          calls, refreshNet, redirected, cycle>>

\* ------------------------------------------------------------------ tokens
\* A JWT is its payload and the secret that signed it: kind "access" is signed
\* with JWT_SECRET and expires after ACCESS_EXPIRY, kind "refresh" is signed
\* with JWT_REFRESH_SECRET and expires after REFRESH_EXPIRY. jwt.sign is a
\* function of payload, iat and secret: equal inputs give the equal string.
NoToken == [kind |-> "none", userId |-> "", email |-> "", iat |-> 0]
Garbage == [kind |-> "garbage", userId |-> "", email |-> "", iat |-> 0]

JwtSign(kind, userId, email, t) ==
  [kind |-> kind, userId |-> userId, email |-> email, iat |-> t]

JwtExp(tok) ==
  tok.iat + (IF tok.kind = "refresh" THEN REFRESH_EXPIRY ELSE ACCESS_EXPIRY)

\* jwt.verify accepting a token at its expiry instant (a faulty variant)
JwtVerifyLate(tok, secret, t) ==
  IF tok.kind # secret THEN "invalid"
  ELSE IF t > JwtExp(tok) THEN "expired"
  ELSE "ok"

\* jwt.verify(token, secret): the signature first, then the expiry
\* (expired when the clock has reached exp).
JwtVerify(tok, secret, t) ==
  IF tok.kind # secret THEN "invalid"
  ELSE IF t >= JwtExp(tok) THEN "expired"
  ELSE "ok"

generateTokens(userId, email, t) ==
  [accessToken |-> JwtSign("access", userId, email, t),
   refreshToken |-> JwtSign("refresh", userId, email, t)]

\* ------------------------------------------------------- Map<string,string>
MapSet(m, k, v) == [x \in (DOMAIN m) \cup {k} |-> IF x = k THEN v ELSE m[x]]
MapDelete(m, k) == [x \in (DOMAIN m) \ {k} |-> m[x]]
EmptyMap == [x \in {} |-> ""]

\* -------------------------------------------------------- server handlers
NoResp == [op |-> "none", token |-> NoToken, status |-> 0, message |-> "",
           code |-> "", accessToken |-> NoToken]

\* router.post("/refresh") without the store lookup (a faulty variant)
RefreshHandlerNoStoreCheck(store, tok, t) ==
  IF tok = NoToken
    THEN [status |-> 400, message |-> "Refresh token is required", code |-> "",
          accessToken |-> NoToken, store |-> store]
  ELSE IF JwtVerify(tok, "refresh", t) = "ok"
    THEN [status |-> 200, message |-> "", code |-> "",
          accessToken |-> JwtSign("access", tok.userId, tok.email, t),
          store |-> store]
  ELSE [status |-> 401, message |-> "Invalid or expired refresh token",
        code |-> "", accessToken |-> NoToken, store |-> MapDelete(store, tok)]

\* router.post("/refresh") signing the new access token without the email
\* (a faulty variant)
RefreshHandlerNoEmail(store, tok, t) ==
  IF tok = NoToken
    THEN [status |-> 400, message |-> "Refresh token is required", code |-> "",
          accessToken |-> NoToken, store |-> store]
  ELSE IF tok \notin DOMAIN store
    THEN [status |-> 401, message |-> "Invalid refresh token", code |-> "",
          accessToken |-> NoToken, store |-> store]
  ELSE IF JwtVerify(tok, "refresh", t) = "ok"
    THEN [status |-> 200, message |-> "", code |-> "",
          accessToken |-> JwtSign("access", store[tok], "", t),
          store |-> store]
  ELSE [status |-> 401, message |-> "Invalid or expired refresh token",
        code |-> "", accessToken |-> NoToken, store |-> MapDelete(store, tok)]

\* router.post("/refresh") that uses the refresh token up (a faulty variant)
RefreshHandlerRotates(store, tok, t) ==
  IF tok = NoToken
    THEN [status |-> 400, message |-> "Refresh token is required", code |-> "",
          accessToken |-> NoToken, store |-> store]
  ELSE IF tok \notin DOMAIN store
    THEN [status |-> 401, message |-> "Invalid refresh token", code |-> "",
          accessToken |-> NoToken, store |-> store]
  ELSE IF JwtVerify(tok, "refresh", t) = "ok"
    THEN [status |-> 200, message |-> "", code |-> "",
          accessToken |-> JwtSign("access", tok.userId, tok.email, t),
          store |-> MapDelete(store, tok)]
  ELSE [status |-> 401, message |-> "Invalid or expired refresh token",
        code |-> "", accessToken |-> NoToken, store |-> MapDelete(store, tok)]

\* router.post("/refresh") whose catch leaves the store alone (a faulty
\* variant)
RefreshHandlerKeepsStale(store, tok, t) ==
  IF tok = NoToken
    THEN [status |-> 400, message |-> "Refresh token is required", code |-> "",
          accessToken |-> NoToken, store |-> store]
  ELSE IF tok \notin DOMAIN store
    THEN [status |-> 401, message |-> "Invalid refresh token", code |-> "",
          accessToken |-> NoToken, store |-> store]
  ELSE IF JwtVerify(tok, "refresh", t) = "ok"
    THEN [status |-> 200, message |-> "", code |-> "",
          accessToken |-> JwtSign("access", tok.userId, tok.email, t),
          store |-> store]
  ELSE [status |-> 401, message |-> "Invalid or expired refresh token",
        code |-> "", accessToken |-> NoToken, store |-> store]

\* router.post("/refresh"): the response and the store it leaves
RefreshHandler(store, tok, t) ==
  IF tok = NoToken
    THEN [status |-> 400, message |-> "Refresh token is required", code |-> "",
          accessToken |-> NoToken, store |-> store]
  ELSE IF tok \notin DOMAIN store
    THEN [status |-> 401, message |-> "Invalid refresh token", code |-> "",
          accessToken |-> NoToken, store |-> store]
  ELSE IF JwtVerify(tok, "refresh", t) = "ok"
    THEN [status |-> 200, message |-> "", code |-> "",
          accessToken |-> JwtSign("access", tok.userId, tok.email, t),
          store |-> store]
  ELSE [status |-> 401, message |-> "Invalid or expired refresh token",
        code |-> "", accessToken |-> NoToken, store |-> MapDelete(store, tok)]

\* router.post("/logout") that refuses a token it does not know (a faulty
\* variant)
LogoutHandlerStrict(store, gmail, tok, authHdr, t) ==
  IF tok # NoToken /\ tok \notin DOMAIN store
    THEN [status |-> 401, message |-> "Invalid refresh token",
          store |-> store, gmail |-> gmail]
  ELSE [status |-> 200, message |-> "Logged out successfully",
        store |-> IF tok # NoToken THEN MapDelete(store, tok) ELSE store,
        gmail |-> gmail]

\* router.post("/logout"): the stores it leaves; the response is always 200
LogoutHandler(store, gmail, tok, authHdr, t) ==
  LET byRefresh == IF tok # NoToken /\ tok \in DOMAIN store
                     THEN {store[tok]} ELSE {}
      byAccess == IF authHdr # NoToken /\ JwtVerify(authHdr, "access", t) = "ok"
                    THEN {authHdr.userId} ELSE {}
  IN [status |-> 200, message |-> "Logged out successfully",
      store |-> IF tok # NoToken THEN MapDelete(store, tok) ELSE store,
      gmail |-> (gmail \ byRefresh) \ byAccess]

\* authMiddleware answering an expired token like an invalid one (a faulty
\* variant)
authMiddlewareNoExpiredCode(authHdr, t) ==
  IF authHdr = NoToken
    THEN [status |-> 401, message |-> "No token provided", code |-> ""]
  ELSE IF JwtVerify(authHdr, "access", t) = "ok"
    THEN [status |-> 200, message |-> "", code |-> ""]
  ELSE [status |-> 401, message |-> "Invalid token", code |-> ""]

\* authMiddleware: the response of a protected endpoint to an Authorization
\* header (NoToken: no header)
authMiddleware(authHdr, t) ==
  IF authHdr = NoToken
    THEN [status |-> 401, message |-> "No token provided", code |-> ""]
  ELSE IF JwtVerify(authHdr, "access", t) = "ok"
    THEN [status |-> 200, message |-> "", code |-> ""]
  ELSE IF JwtVerify(authHdr, "access", t) = "expired"
    THEN [status |-> 401, message |-> "Token expired", code |-> "TOKEN_EXPIRED"]
  ELSE [status |-> 401, message |-> "Invalid token", code |-> ""]

\* ---------------------------------------------------------- server actions
\* a login path that responds without refreshTokenStore.set (a faulty variant)
LoginHandlerNoStore(store, u, t) ==
  LET toks == generateTokens(u, EmailOf(u), t)
  IN [status |-> 200, accessToken |-> toks.accessToken,
      refreshToken |-> toks.refreshToken,
      store |-> store]

\* the login paths end alike: generateTokens, refreshTokenStore.set, respond
LoginHandler(store, u, t) ==
  LET toks == generateTokens(u, EmailOf(u), t)
  IN [status |-> 200, accessToken |-> toks.accessToken,
      refreshToken |-> toks.refreshToken,
      store |-> MapSet(store, toks.refreshToken, u)]

AuthResponse(r) == [accessToken |-> r.accessToken, refreshToken |-> r.refreshToken]

\* router.post("/login") with valid credentials of user u
SrvLogin(u) ==
  /\ nLogins < MaxLogins
  /\ LET r == LoginHandler(refreshTokenStore, u, now)
     IN /\ refreshTokenStore' = r.store
        /\ issued' = issued \cup {AuthResponse(r)}
  /\ nLogins' = nLogins + 1
  /\ UNCHANGED <<now, gmailTokens, srvResp, revoked>>
  /\ UNCHANGED cliVars

\* router.post("/google") with a credential Google verifies as user u
GoogleLogin(u) ==
  /\ nLogins < MaxLogins
  /\ LET r == LoginHandler(refreshTokenStore, u, now)
     IN /\ refreshTokenStore' = r.store
        /\ issued' = issued \cup {AuthResponse(r)}
  /\ nLogins' = nLogins + 1
  /\ UNCHANGED <<now, gmailTokens, srvResp, revoked>>
  /\ UNCHANGED cliVars

\* router.get("/google/callback") with a code Google exchanges for user u
GoogleCallback(u) ==
  /\ nLogins < MaxLogins
  /\ gmailTokens' = gmailTokens \cup {u}
  /\ LET r == LoginHandler(refreshTokenStore, u, now)
     IN /\ refreshTokenStore' = r.store
        /\ issued' = issued \cup {AuthResponse(r)}
  /\ nLogins' = nLogins + 1
  /\ UNCHANGED <<now, srvResp, revoked>>
  /\ UNCHANGED cliVars

\* time passes: the clock reaches instant t
Tick(t) ==
  /\ t > now
  /\ now' = t
  /\ UNCHANGED <<refreshTokenStore, gmailTokens, issued, nLogins, srvResp, revoked>>
  /\ UNCHANGED cliVars

\* what anybody can present to the Issuer: nothing, a malformed string, and
\* the tokens of either kind that were handed out
Presented ==
  {NoToken, Garbage} \cup {p.refreshToken : p \in issued}
                     \cup {p.accessToken : p \in issued}

\* POST /auth/refresh sent to the Issuer directly
DirectRefresh(tok) ==
  /\ srvResp = NoResp
  /\ LET r == RefreshHandler(refreshTokenStore, tok, now)
     IN /\ refreshTokenStore' = r.store
        /\ srvResp' = [op |-> "refresh", token |-> tok, status |-> r.status,
                       message |-> r.message, code |-> r.code,
                       accessToken |-> r.accessToken]
  /\ UNCHANGED <<now, gmailTokens, issued, nLogins, revoked>>
  /\ UNCHANGED cliVars

\* POST /auth/logout sent to the Issuer directly
DirectLogout(tok, authHdr) ==
  /\ srvResp = NoResp
  /\ LET r == LogoutHandler(refreshTokenStore, gmailTokens, tok, authHdr, now)
     IN /\ refreshTokenStore' = r.store
        /\ gmailTokens' = r.gmail
        /\ srvResp' = [op |-> "logout", token |-> tok, status |-> r.status,
                       message |-> r.message, code |-> "",
                       accessToken |-> NoToken]
  /\ revoked' = IF tok # NoToken THEN revoked \cup {tok} ELSE revoked
  /\ UNCHANGED <<now, issued, nLogins>>
  /\ UNCHANGED cliVars

\* a request to a protected endpoint sent to the backend directly, with
\* Authorization header hdr; status 200 stands for next()
DirectApi(hdr) ==
  /\ srvResp = NoResp
  /\ LET r == authMiddleware(hdr, now)
     IN srvResp' = [op |-> "api", token |-> hdr, status |-> r.status,
                    message |-> r.message, code |-> r.code,
                    accessToken |-> NoToken]
  /\ UNCHANGED <<now, refreshTokenStore, gmailTokens, issued, nLogins, revoked>>
  /\ UNCHANGED cliVars

\* the direct caller has read the response
ConsumeResp ==
  /\ srvResp # NoResp
  /\ srvResp' = NoResp
  /\ UNCHANGED <<now, refreshTokenStore, gmailTokens, issued, nLogins, revoked>>
  /\ UNCHANGED cliVars

\* ------------------------------------------------------------ client state
NoExchange == [stage |-> "none", token |-> NoToken, status |-> 0,
               accessToken |-> NoToken]
NewCall == [st |-> "idle", kind |-> "api", retry |-> FALSE, hdr |-> NoToken,
            replays |-> 0, err |-> "none"]
NoCycle == [first |-> "none", handled |-> 0, sent |-> 0, lastTrig |-> NoToken]

\* a call that has ended: the promise apiClient returned is settled (or, after
\* a reload, gone) and its request config is garbage
Settled(how, err) == [NewCall EXCEPT !.st = how, !.err = err]

getRefreshToken ==
  IF "refreshToken" \in DOMAIN localStorage
    THEN localStorage["refreshToken"] ELSE NoToken

\* setRefreshToken(token) that never removes the key (a faulty variant)
setRefreshTokenKeeps(ls, token) ==
  IF token # NoToken THEN MapSet(ls, "refreshToken", token) ELSE ls

\* setRefreshToken(token) on a localStorage ls
setRefreshToken(ls, token) ==
  IF token # NoToken THEN MapSet(ls, "refreshToken", token)
  ELSE MapDelete(ls, "refreshToken")

\* the request interceptor attaching nothing (a faulty variant)
RequestInterceptorKeepsHeader(hdr, token) == hdr

\* the request interceptor: the Authorization header a request leaves with,
\* given the header it came with and the in-memory access token
RequestInterceptor(hdr, token) == IF token # NoToken THEN token ELSE hdr

Init ==
  /\ now = 0
  /\ refreshTokenStore = [x \in {} |-> ""]
  /\ gmailTokens = {}
  /\ issued = {}
  /\ nLogins = 0
  /\ srvResp = NoResp
  /\ revoked = {}
  /\ accessToken = NoToken
  /\ localStorage = [x \in {} |-> NoToken]
  /\ isRefreshing = FALSE
  /\ failedQueue = <<>>
  /\ calls = [c \in CallIds |-> NewCall]
  /\ refreshNet = [c \in CallIds |-> NoExchange]
  /\ redirected = FALSE
  /\ cycle = NoCycle

NextIssuer ==
  \/ \E u \in Users : SrvLogin(u)
  \/ \E u \in Users : GoogleLogin(u)
  \/ \E u \in Users : GoogleCallback(u)
  \/ \E t \in IssuerInstants : Tick(t)
  \/ \E tok \in Presented : DirectRefresh(tok)
  \/ \E tok \in Presented, h \in Presented : DirectLogout(tok, h)
  \/ \E h \in Presented : DirectApi(h)
  \/ ConsumeResp

IssuerSpec == Init /\ [][NextIssuer]_vars

\* ---------------------------------------------------------- client actions
CallKinds == {"api", "login"}

\* the users who log in from the page
PageUsers == {"u1"}

Suspended(c) == calls[c].st \in {"refreshing", "queued"}
InFlight == {c \in CallIds : refreshNet[c].stage # "none"}

\* apiClient(config): a new call leaves through the request interceptor.
\* kind "api" is a protected endpoint, kind "login" is POST /auth/login sent
\* with a wrong password.
StartCall(c, kind) ==
  /\ calls[c].st = "idle"
  /\ \A d \in CallIds : d < c => calls[d].st # "idle"
  /\ calls' = [calls EXCEPT ![c].st = "sent", ![c].kind = kind,
                            ![c].hdr = RequestInterceptor(NoToken, accessToken)]
  /\ UNCHANGED <<accessToken, localStorage, isRefreshing, failedQueue,
                 refreshNet, redirected, cycle>>
  /\ UNCHANGED srvVars

\* the response of the backend to the request of a call
EndpointResponse(kind, hdr, t) ==
  IF kind = "login"
    THEN [status |-> 401, message |-> "Invalid email or password", code |-> ""]
    ELSE authMiddleware(hdr, t)

\* the response to the request call c has in flight, as it arrives
Arrives(c) == EndpointResponse(calls[c].kind, calls[c].hdr, now)

\* response interceptor, (response) => response
HandleSuccess(c) ==
  /\ calls[c].st = "sent"
  /\ Arrives(c).status = 200
  /\ calls' = [calls EXCEPT ![c] =
                 Settled("resolved", IF calls[c].replays > 0 THEN "afterReplay"
                                     ELSE "none")]
  /\ UNCHANGED <<accessToken, localStorage, isRefreshing, failedQueue,
                 refreshNet, redirected, cycle>>
  /\ UNCHANGED srvVars

\* the test without the _retry flag (a faulty variant)
TakesRefreshPathAny(status, retry) == status = 401

\* the test of the response interceptor's error handler
TakesRefreshPath(status, retry) == status = 401 /\ ~retry

\* if (isRefreshing), without the test (a faulty variant)
AlreadyRefreshingNever == FALSE

\* if (isRefreshing) taken always (a faulty variant)
AlreadyRefreshingAlways == TRUE

\* if (isRefreshing): a refresh is under way, queue the request
AlreadyRefreshing == isRefreshing

\* response interceptor, error handler: the request of call c ended in an
\* error that is no 401 (a transport error, a timeout, a 5xx of the route)
CallFails(c) ==
  /\ calls[c].st = "sent"
  /\ ~TakesRefreshPath(500, calls[c].retry)
  /\ calls' = [calls EXCEPT ![c] = Settled("rejected", "apiError")]
  /\ UNCHANGED <<accessToken, localStorage, isRefreshing, failedQueue,
                 refreshNet, redirected, cycle>>
  /\ UNCHANGED srvVars

\* response interceptor, error handler: a 401 for a request already retried
HandleReject(c) ==
  /\ calls[c].st = "sent"
  /\ Arrives(c).status = 401
  /\ ~TakesRefreshPath(401, calls[c].retry)
  /\ calls' = [calls EXCEPT ![c] = Settled("rejected", "api401")]
  /\ UNCHANGED <<accessToken, localStorage, isRefreshing, failedQueue,
                 refreshNet, redirected, cycle>>
  /\ UNCHANGED srvVars

\* response interceptor, error handler: 401 while a refresh is under way
Handle401Queue(c) ==
  /\ calls[c].st = "sent"
  /\ TakesRefreshPath(Arrives(c).status, calls[c].retry)
  /\ AlreadyRefreshing
  /\ failedQueue' = Append(failedQueue, c)
  /\ calls' = [calls EXCEPT ![c].st = "queued"]
  /\ cycle' = [cycle EXCEPT !.handled = @ + 1,
                 !.first = IF cycle.first = "none" THEN "queued" ELSE @]
  /\ UNCHANGED <<accessToken, localStorage, isRefreshing, refreshNet, redirected>>
  /\ UNCHANGED srvVars

\* response interceptor, error handler: 401, no refresh under way, and no
\* refresh token in localStorage
Handle401NoRefreshToken(c) ==
  /\ calls[c].st = "sent"
  /\ TakesRefreshPath(Arrives(c).status, calls[c].retry)
  /\ ~AlreadyRefreshing
  /\ getRefreshToken = NoToken
  /\ isRefreshing' = TRUE
  /\ accessToken' = NoToken
  /\ localStorage' = setRefreshToken(localStorage, NoToken)
  /\ redirected' = TRUE
  /\ calls' = [calls EXCEPT ![c] = Settled("rejected", "api401")]
  /\ cycle' = [cycle EXCEPT !.handled = @ + 1,
                 !.first = IF cycle.first = "none" THEN "noToken" ELSE @]
  /\ UNCHANGED <<failedQueue, refreshNet>>
  /\ UNCHANGED srvVars

\* response interceptor, error handler: 401, no refresh under way: the call
\* becomes the trigger and sends axios.post(/auth/refresh)
Handle401StartRefresh(c) ==
  /\ calls[c].st = "sent"
  /\ TakesRefreshPath(Arrives(c).status, calls[c].retry)
  /\ ~AlreadyRefreshing
  /\ getRefreshToken # NoToken
  /\ isRefreshing' = TRUE
  /\ refreshNet' = [refreshNet EXCEPT ![c] =
                      [stage |-> "req", token |-> getRefreshToken,
                       status |-> 0, accessToken |-> NoToken]]
  /\ calls' = [calls EXCEPT ![c].st = "refreshing", ![c].retry = TRUE]
  /\ cycle' = [cycle EXCEPT !.handled = @ + 1, !.sent = @ + 1,
                 !.first = IF cycle.first = "none" THEN "started" ELSE @,
                 !.lastTrig = calls[c].hdr]
  /\ UNCHANGED <<accessToken, localStorage, failedQueue, redirected>>
  /\ UNCHANGED srvVars

\* the Issuer answers the refresh request of trigger c
ServeRefresh(c) ==
  /\ refreshNet[c].stage = "req"
  /\ LET r == RefreshHandler(refreshTokenStore, refreshNet[c].token, now)
     IN /\ refreshTokenStore' = r.store
        /\ refreshNet' = [refreshNet EXCEPT ![c].stage = "resp",
                            ![c].status = r.status,
                            ![c].accessToken = r.accessToken]
  /\ UNCHANGED <<now, gmailTokens, issued, nLogins, srvResp, revoked>>
  /\ UNCHANGED <<accessToken, localStorage, isRefreshing, failedQueue, calls,
                 redirected, cycle>>

\* the refresh request of trigger c ends in a transport error or a timeout
RefreshFails(c) ==
  /\ refreshNet[c].stage = "req"
  /\ refreshNet' = [refreshNet EXCEPT ![c].stage = "resp", ![c].status = 0]
  /\ UNCHANGED <<accessToken, localStorage, isRefreshing, failedQueue, calls,
                 redirected, cycle>>
  /\ UNCHANGED srvVars

\* processQueue that settles an entry only when it has a token (a faulty
\* variant: the error is dropped)
processQueueEntryDropsError(call, error, token, current) ==
  IF token # NoToken
    THEN [call EXCEPT !.st = "sent", !.replays = @ + 1,
                      !.hdr = RequestInterceptor(token, current)]
  ELSE call

\* processQueue that never resolves an entry (a faulty variant)
processQueueEntryRejectOnly(call, error, token, current) ==
  IF error THEN Settled("rejected", "refreshError") ELSE call

\* processQueue(error, token): what becomes of a queued call q. A resolved
\* entry sets its header to the token and calls apiClient(originalRequest),
\* which passes the request interceptor again.
processQueueEntry(call, error, token, current) ==
  IF error
    THEN Settled("rejected", "refreshError")
  ELSE IF token # NoToken
    THEN [call EXCEPT !.st = "sent", !.replays = @ + 1,
                      !.hdr = RequestInterceptor(token, current)]
  ELSE call

\* the retry sent with the header the request already had (a faulty variant)
RetryOriginalStale(call, token, current) ==
  [call EXCEPT !.st = "sent", !.replays = @ + 1]

\* the trigger's retry after a successful refresh
RetryOriginal(call, token, current) ==
  [call EXCEPT !.st = "sent", !.replays = @ + 1,
               !.hdr = RequestInterceptor(token, current)]

InQueue(q) == \E i \in 1..Len(failedQueue) : failedQueue[i] = q

\* the try block resuming the queued callers and building the retries
\* before the shared access token is set (a faulty variant)
HandleRefreshSuccessResumeFirst(c) ==
  /\ refreshNet[c].stage = "resp"
  /\ refreshNet[c].status = 200
  /\ LET newAccessToken == refreshNet[c].accessToken
     IN /\ accessToken' = newAccessToken
        /\ calls' = [q \in CallIds |->
                       IF q = c
                         THEN RetryOriginal(calls[q], newAccessToken, accessToken)
                       ELSE IF InQueue(q)
                         THEN processQueueEntry(calls[q], FALSE, newAccessToken,
                                                accessToken)
                       ELSE calls[q]]
  /\ failedQueue' = <<>>
  /\ isRefreshing' = FALSE
  /\ refreshNet' = [refreshNet EXCEPT ![c] = NoExchange]
  /\ cycle' = [NoCycle EXCEPT !.lastTrig = cycle.lastTrig]
  /\ UNCHANGED <<localStorage, redirected>>
  /\ UNCHANGED srvVars

\* try block after await axios.post: 2xx
HandleRefreshSuccess(c) ==
  /\ refreshNet[c].stage = "resp"
  /\ refreshNet[c].status = 200
  /\ LET newAccessToken == refreshNet[c].accessToken
     IN /\ accessToken' = newAccessToken
        /\ calls' = [q \in CallIds |->
                       IF q = c
                         THEN RetryOriginal(calls[q], newAccessToken, newAccessToken)
                       ELSE IF InQueue(q)
                         THEN processQueueEntry(calls[q], FALSE, newAccessToken,
                                                newAccessToken)
                       ELSE calls[q]]
  /\ failedQueue' = <<>>
  /\ isRefreshing' = FALSE
  /\ refreshNet' = [refreshNet EXCEPT ![c] = NoExchange]
  /\ cycle' = [NoCycle EXCEPT !.lastTrig = cycle.lastTrig]
  /\ UNCHANGED <<localStorage, redirected>>
  /\ UNCHANGED srvVars

\* catch (refreshError) and finally
HandleRefreshFailure(c) ==
  /\ refreshNet[c].stage = "resp"
  /\ refreshNet[c].status # 200
  /\ calls' = [q \in CallIds |->
                 IF q = c
                   THEN Settled("rejected", "refreshError")
                 ELSE IF InQueue(q)
                   THEN processQueueEntry(calls[q], TRUE, NoToken, accessToken)
                 ELSE calls[q]]
  /\ failedQueue' = <<>>
  /\ accessToken' = NoToken
  /\ localStorage' = setRefreshToken(localStorage, NoToken)
  /\ redirected' = TRUE
  /\ isRefreshing' = FALSE
  /\ refreshNet' = [refreshNet EXCEPT ![c] = NoExchange]
  /\ cycle' = [NoCycle EXCEPT !.lastTrig = cycle.lastTrig]
  /\ UNCHANGED srvVars

\* a login from the page that also keeps the access token in localStorage
\* (a faulty variant)
PageLoginPersistsAccess(u) ==
  /\ nLogins < MaxPageLogins
  /\ LET r == LoginHandler(refreshTokenStore, u, now)
     IN /\ refreshTokenStore' = r.store
        /\ issued' = issued \cup {AuthResponse(r)}
        /\ accessToken' = r.accessToken
        /\ localStorage' = MapSet(setRefreshToken(localStorage, r.refreshToken),
                                  "accessToken", r.accessToken)
  /\ nLogins' = nLogins + 1
  /\ UNCHANGED <<now, gmailTokens, srvResp, revoked>>
  /\ UNCHANGED <<isRefreshing, failedQueue, calls, refreshNet, redirected, cycle>>

\* a login from the page: POST /auth/login with valid credentials of user u,
\* and the application stores the tokens of the response:
\* setAccessToken(accessToken); setRefreshToken(refreshToken)
PageLogin(u) ==
  /\ nLogins < MaxPageLogins
  /\ LET r == LoginHandler(refreshTokenStore, u, now)
     IN /\ refreshTokenStore' = r.store
        /\ issued' = issued \cup {AuthResponse(r)}
        /\ accessToken' = r.accessToken
        /\ localStorage' = setRefreshToken(localStorage, r.refreshToken)
  /\ nLogins' = nLogins + 1
  /\ UNCHANGED <<now, gmailTokens, srvResp, revoked>>
  /\ UNCHANGED <<isRefreshing, failedQueue, calls, refreshNet, redirected, cycle>>

\* the application's logout: clearTokens()
AppLogout ==
  /\ accessToken # NoToken \/ getRefreshToken # NoToken
  /\ accessToken' = NoToken
  /\ localStorage' = setRefreshToken(localStorage, NoToken)
  /\ UNCHANGED <<isRefreshing, failedQueue, calls, refreshNet, redirected, cycle>>
  /\ UNCHANGED srvVars

\* the page is loaded again (the navigation to /login, a restart): the module
\* is evaluated afresh, localStorage stays, the requests of the old page and
\* their callbacks are gone
PageReload ==
  /\ \/ \E c \in CallIds : calls[c].st # "idle"
     \/ accessToken # NoToken
  /\ accessToken' = NoToken
  /\ isRefreshing' = FALSE
  /\ failedQueue' = <<>>
  /\ calls' = [c \in CallIds |->
                 IF calls[c].st \in {"sent", "refreshing", "queued"}
                   THEN Settled("aborted", "none")
                   ELSE calls[c]]
  /\ refreshNet' = [c \in CallIds |-> NoExchange]
  /\ redirected' = FALSE
  /\ cycle' = NoCycle
  /\ UNCHANGED localStorage
  /\ UNCHANGED srvVars

Next ==
  \/ \E u \in PageUsers : PageLogin(u)
  \/ \E t \in Instants : Tick(t)
  \/ AppLogout
  \/ PageReload
  \/ \E c \in CallIds, k \in CallKinds : StartCall(c, k)
  \/ \E c \in CallIds : CallFails(c)
  \/ \E c \in CallIds : HandleSuccess(c)
  \/ \E c \in CallIds : HandleReject(c)
  \/ \E c \in CallIds : Handle401Queue(c)
  \/ \E c \in CallIds : Handle401NoRefreshToken(c)
  \/ \E c \in CallIds : Handle401StartRefresh(c)
  \/ \E c \in CallIds : ServeRefresh(c)
  \/ \E c \in CallIds : RefreshFails(c)
  \/ \E c \in CallIds : HandleRefreshSuccess(c)
  \/ \E c \in CallIds : HandleRefreshFailure(c)

Spec == Init /\ [][Next]_vars

\* the network returns and the callbacks run: every request in flight is
\* answered and every answer is handled
Responds(c) ==
  \/ HandleSuccess(c) \/ CallFails(c) \/ HandleReject(c)
  \/ Handle401Queue(c) \/ Handle401NoRefreshToken(c) \/ Handle401StartRefresh(c)
RefreshReturns(c) == ServeRefresh(c) \/ RefreshFails(c)
RefreshHandled(c) == HandleRefreshSuccess(c) \/ HandleRefreshFailure(c)

FairSpec ==
  /\ Spec
  /\ \A c \in CallIds : WF_vars(Responds(c))
  /\ \A c \in CallIds : WF_vars(RefreshReturns(c))
  /\ \A c \in CallIds : WF_vars(RefreshHandled(c))

\* ------------------------------------------------------------------ claims
\* a step in which the answer of trigger c's refresh exchange is handled
\* (a reload leaves the trigger aborted instead)
RefreshSucceeds(c) ==
  /\ refreshNet[c].stage = "resp" /\ refreshNet[c].status = 200
  /\ refreshNet'[c].stage = "none" /\ calls'[c].st # "aborted"
RefreshIsLost(c) ==
  /\ refreshNet[c].stage = "resp" /\ refreshNet[c].status # 200
  /\ refreshNet'[c].stage = "none" /\ calls'[c].st # "aborted"

\* C1 as stated: once a 401 has been handled on the refresh path and until
\* the refresh exchange completes, exactly one POST /auth/refresh has been sent.
C1_ExactlyOneRefreshSent == cycle.handled >= 1 => cycle.sent = 1

\* C1 amended: when the first 401 of a cycle found a refresh token in
\* localStorage, exactly one POST /auth/refresh is sent for it, one exchange
\* is in flight, and every other call that received a 401 since sits in
\* failedQueue; when it found none, no POST /auth/refresh is sent.
C1_SingleFlight ==
  /\ cycle.first = "started" =>
       /\ cycle.sent = 1
       /\ Cardinality(InFlight) = 1
       /\ Len(failedQueue) = cycle.handled - 1
       /\ \A q \in CallIds : InQueue(q) => calls[q].st = "queued" /\ q \notin InFlight
  /\ cycle.first # "started" => cycle.sent = 0 /\ InFlight = {}

C1_Witness ==
  /\ cycle.first = "started" /\ cycle.handled = 2 /\ cycle.sent = 1
  /\ Len(failedQueue) = 1

\* C2: two requests sent with the same expired access token never start two
\* refresh exchanges: a 401 for a request that carried the expired token
\* which started the previous exchange does not start another.
C2_OneExchangePerExpiredToken ==
  [][\A c \in CallIds :
       (calls[c].st = "sent" /\ calls'[c].st = "refreshing"
          /\ JwtVerify(calls[c].hdr, "access", now) = "expired")
       => calls[c].hdr # cycle.lastTrig]_vars

\* C3: at most one refresh exchange is in flight.
C3_AtMostOneInFlight == Cardinality(InFlight) <= 1

C3_Witness ==
  \E c \in CallIds, q \in CallIds :
     /\ refreshNet[c].stage = "req" /\ calls[q].st = "queued"
     /\ calls[q].hdr = calls[c].hdr /\ calls[q].hdr # NoToken

\* C4: when a refresh exchange succeeds, the trigger and every queued call
\* are re-sent with the access token that exchange returned, and no request
\* is ever re-sent with another token.
C4_ReplayCarriesNewToken ==
  [][/\ \A c \in CallIds : RefreshSucceeds(c) =>
          \A q \in CallIds : (q = c \/ InQueue(q)) =>
             /\ calls'[q].st = "sent"
             /\ calls'[q].replays = calls[q].replays + 1
             /\ calls'[q].hdr = refreshNet[c].accessToken
     /\ \A q \in CallIds : calls'[q].replays > calls[q].replays =>
          \E c \in CallIds : /\ RefreshSucceeds(c)
                             /\ calls'[q].hdr = refreshNet[c].accessToken
                             /\ calls'[q].hdr = accessToken']_vars

C4_Witness ==
  \E c \in CallIds, q \in CallIds :
     /\ c # q
     /\ calls[c].st = "sent" /\ calls[c].retry /\ calls[c].replays = 1
     /\ calls[q].st = "sent" /\ ~calls[q].retry /\ calls[q].replays = 1
     /\ calls[c].hdr = accessToken /\ calls[q].hdr = accessToken
     /\ JwtVerify(accessToken, "access", now) = "ok"

\* C5: no call is re-sent more than once, and a call that was re-sent
\* neither waits in failedQueue nor triggers a refresh exchange.
C5_SingleRetry ==
  \A c \in CallIds :
     /\ calls[c].replays <= 1
     /\ calls[c].replays >= 1 => calls[c].st \notin {"queued", "refreshing"}

\* C6: when a refresh exchange fails, the trigger and every queued call are
\* rejected with the refresh failure, none is re-sent, and no new refresh
\* request is sent.
C6_FailureFanOut ==
  [][\A c \in CallIds : RefreshIsLost(c) =>
       /\ \A q \in CallIds : (q = c \/ InQueue(q)) =>
             calls'[q].st = "rejected" /\ calls'[q].err = "refreshError"
       /\ \A q \in CallIds : calls'[q].replays <= calls[q].replays
       /\ \A q \in CallIds : refreshNet'[q].stage = "none"]_vars

C6_Witness ==
  /\ \A c \in CallIds : calls[c].st = "rejected" /\ calls[c].err = "refreshError"
  /\ InFlight = {}

\* C7: after a failed refresh exchange has been handled the access token is
\* null, localStorage holds no refreshToken, the coordinator is idle with an
\* empty queue, and the redirect to /login is raised.
C7_SessionEnded ==
  [][\A c \in CallIds : RefreshIsLost(c) =>
       /\ accessToken' = NoToken
       /\ "refreshToken" \notin DOMAIN localStorage'
       /\ ~isRefreshing'
       /\ failedQueue' = <<>>
       /\ redirected']_vars

C7_Witness ==
  /\ \E c \in CallIds : calls[c].err = "refreshError"
  /\ redirected /\ ~isRefreshing /\ failedQueue = <<>>
  /\ accessToken = NoToken /\ getRefreshToken = NoToken
  /\ nLogins > 0

\* C8: a call suspended behind a refresh exchange in flight ends resolved,
\* unless the exchange fails, the answer to its re-sent request is no
\* success, or the page is reloaded; and while it is suspended it is
\* rejected by nothing but the failure of the exchange.
C8_AllResolve ==
  /\ \A c \in CallIds :
       (Suspended(c) /\ calls[c].replays = 0 /\ InFlight # {})
         ~> \/ calls[c].st = "resolved"
            \/ calls[c].st \in {"rejected", "aborted"}
            \/ calls[c].replays >= 1 /\ Suspended(c)
  /\ [][\A c \in CallIds :
          (Suspended(c) /\ calls'[c].st = "rejected")
            => calls'[c].err = "refreshError"]_vars

C8_Witness ==
  \A c \in CallIds : calls[c].st = "resolved" /\ calls[c].err = "afterReplay"

\* C9: POST /auth/refresh returns an access token only for a refresh token
\* that is in refreshTokenStore and passes jwt.verify; in every other case
\* the response carries no access token and is no 200.
C9_RefreshOnlyIfStoredAndValid ==
  [][(srvResp = NoResp /\ srvResp'.op = "refresh") =>
       LET honoured == /\ srvResp'.token \in DOMAIN refreshTokenStore
                       /\ JwtVerify(srvResp'.token, "refresh", now) = "ok"
       IN /\ (srvResp'.accessToken # NoToken) <=> honoured
          /\ (srvResp'.status = 200) <=> honoured]_vars

C9_Witness ==
  /\ srvResp.op = "refresh" /\ srvResp.status = 200
  /\ srvResp.accessToken.kind = "access"
  /\ srvResp.accessToken.userId = srvResp.token.userId

\* C10: a POST /auth/refresh with a token that was presented to
\* POST /auth/logout before fails with the store lookup miss.
C10_RevokedStaysRevoked ==
  [][(srvResp = NoResp /\ srvResp'.op = "refresh" /\ srvResp'.token \in revoked)
       => /\ srvResp'.status = 401
          /\ srvResp'.message = "Invalid refresh token"]_vars

\* the refresh tokens handed out so far
IssuedRefreshTokens == {p.refreshToken : p \in issued}

\* C11: two separate logins yield two refresh tokens that are revoked
\* independently: every login hands out a refresh token that no earlier
\* login handed out, and a logout removes the store entry of no token other
\* than the one presented.
C11_IndependentMints ==
  [][/\ (nLogins' = nLogins + 1) =>
          \E p \in issued' : p.refreshToken \notin IssuedRefreshTokens
     /\ (srvResp = NoResp /\ srvResp'.op = "logout") =>
          \A tok \in DOMAIN refreshTokenStore :
             tok # srvResp'.token =>
               /\ tok \in DOMAIN refreshTokenStore'
               /\ refreshTokenStore'[tok] = refreshTokenStore[tok]]_vars

\* C12: an access token returned by POST /auth/refresh carries the userId
\* and the email of the refresh token presented, and that userId is the one
\* refreshTokenStore records for the token.
C12_SubjectPreserved ==
  [][(srvResp = NoResp /\ srvResp'.op = "refresh"
        /\ srvResp'.accessToken # NoToken) =>
       /\ srvResp'.accessToken.userId = srvResp'.token.userId
       /\ srvResp'.accessToken.email = srvResp'.token.email
       /\ srvResp'.token \in DOMAIN refreshTokenStore
       /\ refreshTokenStore[srvResp'.token] = srvResp'.accessToken.userId]_vars

C12_Witness ==
  /\ srvResp.op = "refresh" /\ srvResp.status = 200
  /\ srvResp.token.userId = "u2"
  /\ srvResp.accessToken.email = EmailOf("u2")
  /\ \E tok \in DOMAIN refreshTokenStore : refreshTokenStore[tok] = "u1"

\* C13: POST /auth/logout answers success whatever token is presented
\* (stored, unknown, revoked before, none), leaves no store entry for the
\* presented token and every other entry as it was, and a second logout
\* with the same token leaves the store as the first left it.
C13_LogoutIdempotent ==
  [][(srvResp = NoResp /\ srvResp'.op = "logout") =>
       /\ srvResp'.status = 200
       /\ srvResp'.message = "Logged out successfully"
       /\ srvResp'.token \notin DOMAIN refreshTokenStore'
       /\ \A tok \in DOMAIN refreshTokenStore :
            tok # srvResp'.token =>
              /\ tok \in DOMAIN refreshTokenStore'
              /\ refreshTokenStore'[tok] = refreshTokenStore[tok]
       /\ DOMAIN refreshTokenStore' \subseteq DOMAIN refreshTokenStore
       /\ \A h \in Presented :
            LET again == LogoutHandler(refreshTokenStore', gmailTokens',
                                       srvResp'.token, h, now)
            IN again.status = 200 /\ again.store = refreshTokenStore']_vars

C13_Witness ==
  /\ srvResp.op = "logout" /\ srvResp.status = 200
  /\ srvResp.token \in IssuedRefreshTokens
  /\ srvResp.token \notin DOMAIN refreshTokenStore
  /\ refreshTokenStore # EmptyMap

\* the failure kind of a refresh token presented to POST /auth/refresh
RefreshFailureKind(store, tok, t) ==
  IF tok \notin DOMAIN store THEN "Revoked"
  ELSE IF JwtVerify(tok, "refresh", t) = "expired" THEN "Expired"
  ELSE IF JwtVerify(tok, "refresh", t) = "invalid" THEN "Invalid"
  ELSE "none"

\* C14: a POST /auth/refresh that fails for the token presented answers a
\* 4xx status with an error code, and the code differs from the code any
\* token of another failure kind would get.
C14_RefreshErrorCodes ==
  [][(srvResp = NoResp /\ srvResp'.op = "refresh" /\ srvResp'.token # NoToken
        /\ srvResp'.status # 200) =>
       /\ srvResp'.status \in 400..499
       /\ srvResp'.code # ""
       /\ \A other \in Presented \ {NoToken} :
            LET kind == RefreshFailureKind(refreshTokenStore, srvResp'.token, now)
                otherKind == RefreshFailureKind(refreshTokenStore, other, now)
            IN (otherKind # "none" /\ otherKind # kind) =>
                 RefreshHandler(refreshTokenStore, other, now).code
                   # srvResp'.code]_vars

\* C15 as stated: a protected endpoint answers 401 with an error code in
\* each of the three cases (no token, invalid token, expired token), the
\* three codes differ, and next() is called only for a token that verifies.
C15_CodeInEachCase ==
  [][(srvResp = NoResp /\ srvResp'.op = "api") =>
       LET hdr == srvResp'.token
           verdict == JwtVerify(hdr, "access", now)
       IN /\ (srvResp'.status = 200) <=> (hdr # NoToken /\ verdict = "ok")
          /\ srvResp'.status # 200 =>
               /\ srvResp'.status = 401
               /\ srvResp'.code # ""
               /\ srvResp'.code # authMiddleware(Garbage, now).code
                    \/ verdict = "invalid"
               /\ srvResp'.code # authMiddleware(NoToken, now).code
                    \/ hdr = NoToken]_vars

\* C15 amended: a protected endpoint answers 401 in each of the three
\* cases, with the code TOKEN_EXPIRED for an expired token and with no code
\* but distinct messages for no token and for an invalid token, and next()
\* is called only for a token that verifies.
C15_AuthMiddleware ==
  [][(srvResp = NoResp /\ srvResp'.op = "api") =>
       LET hdr == srvResp'.token
           verdict == JwtVerify(hdr, "access", now)
       IN /\ (srvResp'.status = 200) <=> (hdr # NoToken /\ verdict = "ok")
          /\ srvResp'.status \in {200, 401}
          /\ hdr = NoToken =>
               srvResp'.message = "No token provided" /\ srvResp'.code = ""
          /\ (hdr # NoToken /\ verdict = "expired") =>
               srvResp'.message = "Token expired" /\ srvResp'.code = "TOKEN_EXPIRED"
          /\ (hdr # NoToken /\ verdict = "invalid") =>
               srvResp'.message = "Invalid token" /\ srvResp'.code = ""]_vars

C15_Witness ==
  /\ srvResp.op = "api" /\ srvResp.status = 401
  /\ srvResp.code = "TOKEN_EXPIRED"
  /\ srvResp.token.kind = "access"
  /\ now >= JwtExp(srvResp.token)

\* C16: the 401 that POST /auth/login answers to a wrong password is handed
\* to the caller at once: the call is rejected in the step that handles its
\* response, without a refresh exchange, a queue entry, a retry or a change
\* of the tokens.
C16_OnlyTokenFailuresRefresh ==
  [][\A c \in CallIds :
       (calls[c].st = "sent" /\ calls[c].kind = "login" /\ calls[c].replays = 0
          /\ calls'[c] # calls[c] /\ calls'[c].st # "aborted") =>
         /\ calls'[c].st = "rejected"
         /\ UNCHANGED <<accessToken, localStorage, isRefreshing, failedQueue,
                        refreshNet, redirected>>]_vars

\* C17: POST /auth/refresh with a stored refresh token of expiry e succeeds
\* at clock e - 1 and before, and fails as expired at clock e and after,
\* which also removes the store entry.
C17_ExpiryBoundary ==
  [][(srvResp = NoResp /\ srvResp'.op = "refresh"
        /\ srvResp'.token \in DOMAIN refreshTokenStore) =>
       LET e == srvResp'.token.iat + REFRESH_EXPIRY
       IN /\ now <= e - 1 =>
               /\ srvResp'.status = 200
               /\ srvResp'.accessToken # NoToken
          /\ now >= e =>
               /\ srvResp'.status = 401
               /\ srvResp'.message = "Invalid or expired refresh token"
               /\ srvResp'.accessToken = NoToken
               /\ srvResp'.token \notin DOMAIN refreshTokenStore']_vars

C17_Witness ==
  /\ srvResp.op = "refresh" /\ srvResp.status = 401
  /\ srvResp.message = "Invalid or expired refresh token"
  /\ srvResp.token.kind = "refresh"
  /\ now = srvResp.token.iat + REFRESH_EXPIRY

\* the other side of the boundary of C17, one second before the expiry
C17_WitnessBefore ==
  /\ srvResp.op = "refresh" /\ srvResp.status = 200
  /\ now = srvResp.token.iat + REFRESH_EXPIRY - 1

\* C18: localStorage never holds anything but a refresh token under the key
\* refreshToken; a login keeps the access token in memory and the refresh
\* token in localStorage; a reload of the page loses the access token and
\* keeps the refresh token.
C18_AccessTokenInMemoryOnly ==
  [][/\ \A k \in DOMAIN localStorage' :
          k = "refreshToken" /\ localStorage'[k].kind = "refresh"
     /\ (nLogins' = nLogins + 1) =>
          \E p \in issued' :
             /\ accessToken' = p.accessToken
             /\ "refreshToken" \in DOMAIN localStorage'
             /\ localStorage'["refreshToken"] = p.refreshToken
     /\ PageReload => accessToken' = NoToken /\ localStorage' = localStorage]_vars

C18_Witness ==
  /\ accessToken = NoToken
  /\ getRefreshToken.kind = "refresh"
  /\ \E c \in CallIds : calls[c].st = "aborted" /\ ~redirected
  /\ ~isRefreshing

\* C19: the step that answers a call's 401 while no refresh is under way and
\* localStorage holds no refresh token sends no refresh request, rejects the
\* call with that 401, clears the tokens, raises the redirect to /login and
\* leaves the coordinator as a failed refresh exchange leaves it: idle, with
\* an empty queue.
C19_MissingRefreshToken ==
  [][\A c \in CallIds :
       (/\ calls[c].st = "sent"
        /\ TakesRefreshPath(Arrives(c).status, calls[c].retry)
        /\ ~isRefreshing
        /\ getRefreshToken = NoToken
        /\ calls'[c].err = "api401") =>
          /\ calls'[c].st = "rejected"
          /\ refreshNet' = refreshNet
          /\ accessToken' = NoToken
          /\ "refreshToken" \notin DOMAIN localStorage'
          /\ redirected'
          /\ failedQueue' = <<>>
          /\ ~isRefreshing']_vars

\* C20: in the step that handles a successful refresh exchange the shared
\* access token takes the returned value, and every request built in that
\* step, for the trigger and for each resumed queued caller, gets the
\* Authorization header the request interceptor reads from the shared token
\* after the update, never the value it had before.
C20_BroadcastThenResume ==
  [][\A c \in CallIds : RefreshSucceeds(c) =>
       /\ accessToken' = refreshNet[c].accessToken
       /\ accessToken' # NoToken
       /\ \A q \in CallIds : calls'[q].replays > calls[q].replays =>
            /\ calls'[q].hdr = RequestInterceptor(calls[q].hdr, accessToken')
            /\ accessToken # accessToken' => calls'[q].hdr # accessToken]_vars

C20_Witness ==
  \E c \in CallIds, q \in CallIds :
     /\ calls[q].st = "sent" /\ ~calls[q].retry /\ calls[q].replays = 1
     /\ calls[c].st = "sent" /\ calls[c].retry /\ calls[c].replays = 1
     /\ calls[q].hdr = accessToken
     /\ cycle.lastTrig # NoToken /\ cycle.lastTrig # accessToken
     /\ JwtVerify(cycle.lastTrig, "access", now) = "expired"

\* C21: every login (password, Google credential, Google callback) hands
\* out a refresh token minted at that instant which, in the state the login
\* leaves, is in refreshTokenStore mapped to the id of the user logged in.
C21_LoginStoresRefreshToken ==
  [][(nLogins' = nLogins + 1) =>
       \E p \in issued' :
          /\ issued' = issued \cup {p}
          /\ p.refreshToken.kind = "refresh" /\ p.refreshToken.iat = now
          /\ p.accessToken.userId = p.refreshToken.userId
          /\ p.refreshToken \in DOMAIN refreshTokenStore'
          /\ refreshTokenStore'[p.refreshToken] = p.refreshToken.userId]_vars

C21_Witness ==
  /\ nLogins = 2 /\ gmailTokens = {"u2"}
  /\ \E p \in issued, r \in issued :
        /\ p.refreshToken.userId = "u1" /\ r.refreshToken.userId = "u2"
        /\ p.refreshToken \in DOMAIN refreshTokenStore
        /\ r.refreshToken \in DOMAIN refreshTokenStore
        /\ refreshTokenStore[r.refreshToken] = "u2"

\* C22: a POST /auth/refresh that succeeds leaves refreshTokenStore as it
\* was, so the same token presented again at once succeeds again.
C22_RefreshKeepsStore ==
  [][(srvResp = NoResp /\ srvResp'.op = "refresh" /\ srvResp'.status = 200) =>
       /\ refreshTokenStore' = refreshTokenStore
       /\ srvResp'.token \in DOMAIN refreshTokenStore'
       /\ LET again == RefreshHandler(refreshTokenStore', srvResp'.token, now)
          IN /\ again.status = 200
             /\ again.accessToken = srvResp'.accessToken
             /\ again.store = refreshTokenStore']_vars

C22_Witness ==
  /\ srvResp.op = "refresh" /\ srvResp.status = 200
  /\ srvResp.token.iat = 0 /\ srvResp.accessToken.iat = REFRESH_EXPIRY - 1
  /\ Cardinality(DOMAIN refreshTokenStore) = 2
  /\ revoked # {}

\* C23: a POST /auth/refresh with a token that is in refreshTokenStore but
\* does not pass jwt.verify answers 401 and removes the entry of that token
\* and of no other.
C23_StaleEntryRemoved ==
  [][(/\ srvResp = NoResp /\ srvResp'.op = "refresh"
      /\ srvResp'.token \in DOMAIN refreshTokenStore
      /\ JwtVerify(srvResp'.token, "refresh", now) # "ok") =>
       /\ srvResp'.status = 401
       /\ srvResp'.accessToken = NoToken
       /\ DOMAIN refreshTokenStore' = DOMAIN refreshTokenStore \ {srvResp'.token}
       /\ \A tok \in DOMAIN refreshTokenStore' :
            refreshTokenStore'[tok] = refreshTokenStore[tok]]_vars

C23_Witness ==
  /\ srvResp.op = "refresh" /\ srvResp.status = 401
  /\ srvResp.token \in IssuedRefreshTokens
  /\ srvResp.token \notin revoked
  /\ JwtVerify(srvResp.token, "refresh", now) = "expired"
  /\ srvResp.token \notin DOMAIN refreshTokenStore
  /\ \E tok \in DOMAIN refreshTokenStore : JwtVerify(tok, "refresh", now) = "ok"

\* C24: a successful refresh puts the returned token in the in-memory
\* variable, every call started later leaves with the in-memory token of the
\* moment it starts, and the in-memory token takes a new non-null value only
\* by a login or a successful refresh: no call started after the refresh
\* carries the token the refresh replaced.
C24_LaterCallsUseNewToken ==
  [][/\ \A c \in CallIds :
          RefreshSucceeds(c) => accessToken' = refreshNet[c].accessToken
     /\ \A c \in CallIds :
          (calls[c].st = "idle" /\ calls'[c].st = "sent") =>
             /\ calls'[c].hdr = accessToken
             /\ accessToken' = accessToken
     /\ (accessToken' # accessToken /\ accessToken' # NoToken) =>
          \/ nLogins' = nLogins + 1
          \/ \E c \in CallIds : RefreshSucceeds(c)]_vars

C24_Witness ==
  \E c \in CallIds :
     /\ calls[c].st = "sent" /\ calls[c].replays = 0 /\ ~calls[c].retry
     /\ calls[c].hdr = accessToken
     /\ accessToken # NoToken
     /\ \A p \in issued : p.accessToken # accessToken
     /\ cycle.lastTrig # NoToken /\ cycle.lastTrig # accessToken

\* C25: isRefreshing is true exactly while a refresh exchange is in flight.
C25_FlagMeansInFlight == isRefreshing <=> (InFlight # {})

C27_NoTokenAfterClear ==
  [][\A c \in CallIds :
       (RefreshSucceeds(c) /\ getRefreshToken # refreshNet[c].token)
         => accessToken' = accessToken]_vars

\* C28: while isRefreshing is false failedQueue is empty; an entry is
\* appended only while isRefreshing is true; and the step that sets
\* isRefreshing back to false leaves the queue empty.
C28_IdleMeansEmptyQueue ==
  /\ [](~isRefreshing => failedQueue = <<>>)
  /\ [][/\ Len(failedQueue') > Len(failedQueue) =>
             /\ isRefreshing /\ isRefreshing'
             /\ Len(failedQueue') = Len(failedQueue) + 1
        /\ (isRefreshing /\ ~isRefreshing') => failedQueue' = <<>>]_vars

C28_Witness ==
  \E c \in CallIds :
     /\ refreshNet[c].stage = "resp" /\ refreshNet[c].status = 401
     /\ isRefreshing /\ Len(failedQueue) = 1
     /\ calls[failedQueue[1]].st = "queued"

\* C29: a call that starts a refresh exchange is marked _retry in the step
\* that sends the exchange; and when the answer to a request marked _retry
\* is a 401, the step that handles it rejects the call and changes nothing
\* of the coordinator: no queue entry, no refresh exchange, no token change.
C29_TriggerRetriedOnce ==
  [][\A c \in CallIds :
       /\ (calls[c].st = "sent" /\ calls'[c].st = "refreshing") =>
             /\ calls'[c].retry
             /\ refreshNet[c].stage = "none" /\ refreshNet'[c].stage = "req"
       /\ (/\ calls[c].st = "sent" /\ calls[c].retry
           /\ Arrives(c).status = 401
           /\ calls'[c] # calls[c] /\ calls'[c].st # "aborted") =>
             /\ calls'[c].st = "rejected"
             /\ calls'[c].err \in {"api401", "apiError"}
             /\ UNCHANGED <<accessToken, localStorage, isRefreshing,
                            failedQueue, refreshNet, redirected, cycle>>]_vars

C29_Witness ==
  \E c \in CallIds, q \in CallIds :
     /\ c # q
     /\ calls[c].st = "rejected" /\ calls[c].err = "api401"
     /\ calls[q].st = "sent" /\ calls[q].replays = 1 /\ ~calls[q].retry
     /\ ~isRefreshing /\ ~redirected /\ accessToken # NoToken

TerminatesUnlessStuck ==
  \A c \in CallIds :
     (calls[c].st = "sent" /\ calls[c].kind = "login")
       ~> \/ calls[c].st \in {"rejected", "aborted"}
          \/ calls[c].st = "queued" /\ InFlight = {}

\* two calls that each ended rejected with a 401 after a refresh exchange
RejectedAfterRefreshes ==
  /\ \A c \in CallIds : calls[c].st = "rejected" /\ calls[c].err = "api401"
  /\ cycle.lastTrig # NoToken
  /\ \A p \in issued : p.accessToken # cycle.lastTrig
  /\ ~isRefreshing /\ accessToken # NoToken

====
